---- MODULE Spec2Model ----
(***************************************************************************)
(* Offer synchronization engine of mobgran-importer-go:                    *)
(*   services.MobgranImporter (ExtrairUUIDLink, ValidarURL, BuscarDadosAPI,*)
(*   Importar, salvarCavaletesEItens) over the PostgreSQL gateway          *)
(*   database.Client and the schema of sql/init.sql.                       *)
(* Strings are sequences of one-character strings.                         *)
(***************************************************************************)
EXTENDS Integers, Sequences, FiniteSets, TLC

\* ------------------------------------------------------------------ bounds
\* total number of Importar calls started in one behaviour
MaxImports == 2
\* longest padding put in front of / behind a candidate token (extraction)
MaxPad == 1
\* Importar calls of a run checked under fairness
MaxJusto == 1

\* ------------------------------------------------------------- characters
Digits == {"0", "1", "2", "3", "4", "5", "6", "7", "8", "9"}
LowerHex == {"a", "b", "c", "d", "e", "f"}
UpperHex == {"A", "B", "C", "D", "E", "F"}

\* the character class [0-9a-f] of the pattern
IsPatternHexMutant(c) == c \in Digits \cup LowerHex \cup {"g"}
IsPatternHex(c) == c \in Digits \cup LowerHex

\* a hexadecimal digit in either case
IsHexAnyCase(c) == c \in Digits \cup LowerHex \cup UpperHex

\* lengths of the five groups of the pattern, and the length of a token
GroupLens == <<8, 4, 4, 4, 12>>
TokenLen == GroupLens[1] + GroupLens[2] + GroupLens[3] + GroupLens[4] + GroupLens[5] + 4
HyphenPos == {GroupLens[1] + 1,
              GroupLens[1] + GroupLens[2] + 2,
              GroupLens[1] + GroupLens[2] + GroupLens[3] + 3,
              GroupLens[1] + GroupLens[2] + GroupLens[3] + GroupLens[4] + 4}

Rep(c, n) == [k \in 1..n |-> c]

\* ------------------------------------------------ regexp / strings helpers
\* the pattern matches s at position i
MatchAt(s, i) ==
    /\ i >= 1
    /\ i + TokenLen - 1 <= Len(s)
    /\ \A k \in 1..TokenLen :
          IF k \in HyphenPos THEN s[i + k - 1] = "-"
                             ELSE IsPatternHex(s[i + k - 1])

\* regexp.FindString: the leftmost match, "" when there is none
FindString(s) ==
    IF \E i \in 1..Len(s) : MatchAt(s, i)
    THEN LET i == CHOOSE i \in 1..Len(s) :
                     MatchAt(s, i) /\ \A j \in 1..(i - 1) : ~MatchAt(s, j)
         IN  SubSeq(s, i, i + TokenLen - 1)
    ELSE <<>>

\* strings.Contains
Contains(s, sub) ==
    \E i \in 1..(Len(s) - Len(sub) + 1) : SubSeq(s, i, i + Len(sub) - 1) = sub

\* ExtrairUUIDLink: the token, or <<>> for the "UUID não encontrado" error
ExtrairUUIDLink(url) == FindString(url)

DomainMarker == <<"m", "o", "b", "g", "r", "a", "n", ".", "c", "o", "m">>

\* ValidarURL: TRUE when the function returns nil (no error)
ValidarURLMutant(url) ==
    /\ url # <<>>
    /\ ExtrairUUIDLink(url) # <<>>
ValidarURL(url) ==
    /\ url # <<>>
    /\ Contains(url, DomainMarker)
    /\ ExtrairUUIDLink(url) # <<>>

\* ------------------------------------------------------------------ links
TokA == Rep("a", 8) \o <<"-">> \o Rep("1", 4) \o <<"-">> \o Rep("4", 4)
        \o <<"-">> \o Rep("9", 4) \o <<"-">> \o Rep("d", 12)
TokB == Rep("b", 8) \o <<"-">> \o Rep("2", 4) \o <<"-">> \o Rep("4", 4)
        \o <<"-">> \o Rep("8", 4) \o <<"-">> \o Rep("e", 12)

LinkA == DomainMarker \o <<"/", "?", "o", "=">> \o TokA \o <<"/">>
LinkB == DomainMarker \o <<"/", "?", "o", "=">> \o TokB \o <<"/">>
LinkNoDomain == <<"x", ".", "c", "o", "m", "/", "?", "o", "=">> \o TokA
LinkNoToken == DomainMarker \o <<"/", "?", "o", "=">> \o Rep("a", 8)
LinkEmpty == <<>>

\* the links handed to Importar
Links == {LinkA, LinkNoDomain, LinkNoToken, LinkEmpty}

\* -------------------------------------------------------------- documents
\* a JSON number of the upstream document: given, or left out
JNum(n) == [given |-> TRUE, val |-> n]
Absent == [given |-> FALSE, val |-> 0]

\* imagemPrincipal of the JSON document: left out, or an object
NoImagem == [present |-> FALSE, nome |-> "", url |-> "", urlMin |-> ""]
Imagem(n, u) == [present |-> TRUE, nome |-> n, url |-> u, urlMin |-> ""]

JItem(cod, comp) == [codigo |-> cod, bloco |-> "B1", comprimento |-> comp,
                     altura |-> JNum(2), metragem |-> JNum(3)]
JCavalete(cod, comp, img, its) ==
    [codigo |-> cod, bloco |-> "B1", nomeMaterial |-> "granito",
     comprimento |-> comp, altura |-> JNum(2), metragem |-> JNum(3),
     imagemPrincipal |-> img, itens |-> its]

\* upstream JSON bodies (the provider's document for a link changes over time)
JDoc1 == [situacao |-> "aberta", nomeEmpresa |-> "E1", urlLogo |-> "L1",
          cavaletes |-> << JCavalete("C1", JNum(5), Imagem("n", "u"),
                                     <<JItem("I1", JNum(5)), JItem("I2", Absent)>>),
                           JCavalete("C2", Absent, NoImagem, <<>>) >>]
JDoc2 == [situacao |-> "fechada", nomeEmpresa |-> "E2", urlLogo |-> "L2",
          cavaletes |-> << JCavalete("C3", JNum(0), Imagem("", ""), <<>>) >>]
JDocs == {JDoc1, JDoc2}

\* json.Decoder.Decode into float64: a number left out decodes to 0
DecodeNum(n) == IF n.given THEN n.val ELSE 0

\* json.Decoder.Decode into models.Item
DecodeItem(j) ==
    [Codigo |-> j.codigo, Bloco |-> j.bloco,
     Comprimento |-> DecodeNum(j.comprimento), Altura |-> DecodeNum(j.altura),
     Metragem |-> DecodeNum(j.metragem)]

\* json.Decoder.Decode into models.Cavalete
DecodeCavalete(j) ==
    [Codigo |-> j.codigo, Bloco |-> j.bloco, NomeMaterial |-> j.nomeMaterial,
     Comprimento |-> DecodeNum(j.comprimento), Altura |-> DecodeNum(j.altura),
     Metragem |-> DecodeNum(j.metragem), ImagemPrincipal |-> j.imagemPrincipal,
     Itens |-> [k \in DOMAIN j.itens |-> DecodeItem(j.itens[k])]]

\* json.Decoder.Decode into models.MobgranResponse
Decode(j) ==
    [Situacao |-> j.situacao, NomeEmpresa |-> j.nomeEmpresa, URLLogo |-> j.urlLogo,
     Cavaletes |-> [k \in DOMAIN j.cavaletes |-> DecodeCavalete(j.cavaletes[k])]]

Docs == {Decode(j) : j \in JDocs}

\* json.Marshal of models.Item: every float64 is written, 0 included
MarshalItem(item) ==
    [codigo |-> item.Codigo, bloco |-> item.Bloco,
     comprimento |-> JNum(item.Comprimento), altura |-> JNum(item.Altura),
     metragem |-> JNum(item.Metragem)]

\* json.Marshal of models.Cavalete: imagemPrincipal is left out when nil
MarshalCavalete(cavalete) ==
    [codigo |-> cavalete.Codigo, bloco |-> cavalete.Bloco,
     nomeMaterial |-> cavalete.NomeMaterial,
     comprimento |-> JNum(cavalete.Comprimento), altura |-> JNum(cavalete.Altura),
     metragem |-> JNum(cavalete.Metragem),
     imagemPrincipal |-> IF cavalete.ImagemPrincipal.present
                         THEN cavalete.ImagemPrincipal ELSE NoImagem,
     itens |-> [k \in DOMAIN cavalete.Itens |-> MarshalItem(cavalete.Itens[k])]]

\* json.Marshal of models.MobgranResponse: the value of column dados_completos
MarshalMutant(dados) ==
    [situacao |-> dados.Situacao, nomeEmpresa |-> dados.NomeEmpresa,
     urlLogo |-> dados.URLLogo, cavaletes |-> <<>>]
Marshal(dados) ==
    [situacao |-> dados.Situacao, nomeEmpresa |-> dados.NomeEmpresa,
     urlLogo |-> dados.URLLogo,
     cavaletes |-> [k \in DOMAIN dados.Cavaletes |->
                      MarshalCavalete(dados.Cavaletes[k])]]

\* no JSON body received
NoBody == [situacao |-> "", nomeEmpresa |-> "", urlLogo |-> "", cavaletes |-> <<>>]

\* what the upstream answers to one GET
Responses == {[kind |-> "transport", body |-> JDoc1],
              [kind |-> "timeout", body |-> JDoc1],
              [kind |-> "status", body |-> JDoc1],
              [kind |-> "undecodable", body |-> JDoc1]}
             \cup {[kind |-> "ok", body |-> j] : j \in JDocs}

\* ------------------------------------------------------------------ state
Procs == {"p1", "p2"}
UUIDs == {ExtrairUUIDLink(l) : l \in Links} \ {<<>>}
\* generated row IDs (uuid.New): never repeated, never inspected by the code.
\* The ID generated for position (i, j) of the n-th Importar call is <<n, i, j>>.
NoId == <<0, 0, 0>>
RowId(n, i, j) == <<n, i, j>>
NoDoc == [Situacao |-> "", NomeEmpresa |-> "", URLLogo |-> "", Cavaletes |-> <<>>]

VARIABLES
    ofertas,    \* rows of table ofertas
    cavaletes,  \* rows of table cavaletes
    itens,      \* rows of table itens
    produtos,   \* rows of table produtos_aprovados
    proc,       \* per running Importar: its position and local variables
    res,        \* the values returned by the last Importar of each caller
    started,    \* number of Importar calls started
    hist,       \* per Importar: what it has done so far (observation only)
    last,       \* per identifier: the Importar that returned most recently
    lastOk,     \* per identifier: the most recent Importar that returned true
    overlapped, \* some Importar calls have run at the same time (observation only)
    xin,        \* input of the extraction run
    xout        \* outputs of the extraction run

store == <<ofertas, cavaletes, itens>>
vars == <<ofertas, cavaletes, itens, produtos, proc, res, started, hist, last,
          lastOk, overlapped, xin, xout>>

\* ------------------------------------------------- persistence gateway
\* VerificarOfertaExistente: the id of the row with this uuid_link, or NoId
VerificarOfertaExistenteMutant(ofertaUUID) == NoId
VerificarOfertaExistente(ofertaUUID) ==
    IF \E o \in ofertas : o.uuid_link = ofertaUUID
    THEN (CHOOSE o \in ofertas : o.uuid_link = ofertaUUID).id
    ELSE NoId

\* the UNIQUE constraint on ofertas.uuid_link admits the new row
UniqueUuidLinkMutant(ofertaUUID) == TRUE
UniqueUuidLink(ofertaUUID) == \A o \in ofertas : o.uuid_link # ofertaUUID

\* the row SalvarOferta inserts
OfertaRow(id, ofertaUUID, dados) ==
    [id |-> id, uuid_link |-> ofertaUUID, situacao |-> dados.Situacao,
     nome_empresa |-> dados.NomeEmpresa, url_logo |-> dados.URLLogo,
     dados_completos |-> Marshal(dados)]

\* the row AtualizarOferta leaves: id and uuid_link are kept
OfertaAtualizadaMutant(o, dados) == o
OfertaAtualizada(o, dados) ==
    [o EXCEPT !.situacao = dados.Situacao, !.nome_empresa = dados.NomeEmpresa,
              !.url_logo = dados.URLLogo, !.dados_completos = Marshal(dados)]

\* imagem_principal column: NULL when the pointer is nil or all fields are empty
ImagemPrincipalJSON(img) ==
    IF img.present /\ (img.nome # "" \/ img.url # "" \/ img.urlMin # "")
    THEN [Valid |-> TRUE, nome |-> img.nome, url |-> img.url, urlMin |-> img.urlMin]
    ELSE [Valid |-> FALSE, nome |-> "", url |-> "", urlMin |-> ""]

\* the columns SalvarCavalete writes besides id and oferta_id
CavaleteColumns(cavalete) ==
    [codigo |-> cavalete.Codigo, bloco |-> cavalete.Bloco,
     nome_material |-> cavalete.NomeMaterial,
     comprimento |-> cavalete.Comprimento, altura |-> cavalete.Altura,
     metragem |-> cavalete.Metragem,
     imagem_principal |-> ImagemPrincipalJSON(cavalete.ImagemPrincipal),
     quantidade_itens |-> Len(cavalete.Itens)]

\* the columns SalvarItem writes besides id and cavalete_id
ItemColumns(item) ==
    [codigo |-> item.Codigo, bloco |-> item.Bloco,
     comprimento |-> item.Comprimento, altura |-> item.Altura,
     metragem |-> item.Metragem]

CavaleteRow(id, ofertaID, cavalete) ==
    [id |-> id, oferta_id |-> ofertaID, col |-> CavaleteColumns(cavalete)]

ItemRow(id, cavaleteID, item) ==
    [id |-> id, cavalete_id |-> cavaleteID, col |-> ItemColumns(item)]

\* FOREIGN KEY cavaletes.oferta_id: the referenced offer row exists
OfertaExiste(ofertaID) == \E o \in ofertas : o.id = ofertaID

\* FOREIGN KEY itens.cavalete_id: the referenced cavalete row exists
CavaleteExisteMutant(cavaleteID) == TRUE
CavaleteExiste(cavaleteID) == \E c \in cavaletes : c.id = cavaleteID

\* the first DELETE of RemoverCavaletesEItens: the items it deletes
ItensDaOferta(ofertaID) ==
    {i \in itens : \E c \in cavaletes : c.id = i.cavalete_id /\ c.oferta_id = ofertaID}

\* RemoverCavaletesEItens, committed: the cavaletes left
CavaletesAposRemoverMutant(ofertaID) == cavaletes
CavaletesAposRemover(ofertaID) == {c \in cavaletes : c.oferta_id # ofertaID}

\* RemoverCavaletesEItens, committed: the items left
ItensAposRemoverMutant(ofertaID) == itens
ItensAposRemover(ofertaID) ==
    {i \in itens : \A c \in cavaletes : c.id = i.cavalete_id => c.oferta_id # ofertaID}

\* init.sql line 121: produtos_aprovados.cavalete_id REFERENCES cavaletes(id)
\* ON DELETE CASCADE; the rows left when the cavaletes of the offer are deleted
\* the cavaletes of the offer that some trader has approved
Aprovados(ofertaID) ==
    {c \in cavaletes : c.oferta_id = ofertaID /\ \E a \in produtos : a.cavalete_id = c.id}
ProdutosAposRemoverMutant(ofertaID) == produtos
ProdutosAposRemover(ofertaID) ==
    {a \in produtos : \A c \in cavaletes : c.id = a.cavalete_id => c.oferta_id # ofertaID}

\* one store statement of an import, as the store receives it (observation only)
Op(op, i, j, ok) == [op |-> op, i |-> i, j |-> j, ok |-> ok]

\* --------------------------------------------------- observation helpers
\* number of elements of S that f maps to each value
BagOf(f(_), S) == [v \in {f(x) : x \in S} |-> Cardinality({x \in S : f(x) = v})]
SeqBag(f(_), sq) ==
    [v \in {f(sq[k]) : k \in DOMAIN sq} |-> Cardinality({k \in DOMAIN sq : f(sq[k]) = v})]

ColOf(r) == r.col
ItensDe(cavaleteID) == {i \in itens : i.cavalete_id = cavaleteID}
CavaletesDe(ofertaID) == {c \in cavaletes : c.oferta_id = ofertaID}

\* a stored cavalete by content: its columns and the contents of its items
Shape(c) == [col |-> c.col, itens |-> BagOf(ColOf, ItensDe(c.id))]
\* the children stored under an offer, by content
Children(ofertaID) == BagOf(Shape, CavaletesDe(ofertaID))

\* the children of a document, by content
DocShape(cavalete) ==
    [col |-> CavaleteColumns(cavalete), itens |-> SeqBag(ItemColumns, cavalete.Itens)]
DocChildren(dados) == SeqBag(DocShape, dados.Cavaletes)

\* the store by content: every offer row with its children
View == [id \in {o.id : o \in ofertas} |->
            [row |-> CHOOSE o \in ofertas : o.id = id, children |-> Children(id)]]

NoImport == [any |-> FALSE, ok |-> FALSE, doc |-> NoDoc, flag |-> FALSE,
             solo |-> FALSE, n |-> 0]

\* ----------------------------------------------------------------- Importar
IdleProc == [pc |-> "idle", n |-> 0, url |-> <<>>, atualizarExistente |-> FALSE,
             uuid |-> <<>>, ofertaExistente |-> NoId, dados |-> NoDoc,
             ofertaID |-> NoId, i |-> 0, cavaleteID |-> NoId, j |-> 0,
             tx |-> {}]

NoRes == [sucesso |-> FALSE, mensagem |-> "", id |-> NoId, err |-> FALSE]
Falha(msg, id) == [sucesso |-> FALSE, mensagem |-> msg, id |-> id, err |-> TRUE]
\* the return of line 550: false, the existing id, a nil error
JaExisteMutant(id) == [sucesso |-> FALSE, id |-> NoId, err |-> FALSE,
                 mensagem |-> "Oferta já existe e atualização não foi solicitada"]
JaExiste(id) == [sucesso |-> FALSE, id |-> id, err |-> FALSE,
                 mensagem |-> "Oferta já existe e atualização não foi solicitada"]
Sucesso(id) == [sucesso |-> TRUE, mensagem |-> "Importação realizada com sucesso",
                id |-> id, err |-> FALSE]

\* Importar goes on to its next step
Continue(p, pr, hh) ==
    /\ proc' = [proc EXCEPT ![p] = pr]
    /\ hist' = hh
    /\ UNCHANGED <<res, last, lastOk>>

\* Importar returns r
Return(p, pr, hh, r) ==
    /\ proc' = [proc EXCEPT ![p] = [pr EXCEPT !.pc = "idle", !.i = 0, !.j = 0,
                                             !.cavaleteID = NoId]]
    /\ hist' = hh
    /\ res' = [res EXCEPT ![p] = r]
    /\ IF pr.uuid \in UUIDs
       THEN /\ last' = [last EXCEPT ![pr.uuid] =
                          [any |-> TRUE, ok |-> r.sucesso, doc |-> pr.dados,
                           flag |-> pr.atualizarExistente, solo |-> hh[p].solo,
                           n |-> pr.n]]
            /\ lastOk' = IF r.sucesso
                         THEN [lastOk EXCEPT ![pr.uuid] = [any |-> TRUE, doc |-> pr.dados]]
                         ELSE lastOk
       ELSE UNCHANGED <<last, lastOk>>

\* the link lacks the domain marker or holds no token (observation only)
LinkRejeitado(url) == ~Contains(url, DomainMarker) \/ ExtrairUUIDLink(url) = <<>>

Before(q, p) == q = "p1" /\ p = "p2"

\* lines 519-531: validation and extraction, before any I/O
Importar(p, url, atualizarExistente) ==
    /\ proc[p].pc = "idle"
    \* callers are interchangeable: a call takes the first free slot
    /\ \A q \in Procs : Before(q, p) => proc[q].pc # "idle"
    /\ started < MaxImports
    /\ started' = started + 1
    /\ UNCHANGED <<produtos, store, xin, xout>>
    /\ overlapped' = (overlapped \/ (ValidarURL(url) /\ \E q \in Procs : proc[q].pc # "idle"))
    /\ LET uuid == ExtrairUUIDLink(url)
           pr == [IdleProc EXCEPT !.n = started + 1, !.url = url,
                                  !.atualizarExistente = atualizarExistente]
           h == [http |-> 0, reads |-> 0, writes |-> 0, ops |-> <<>>,
                 esgotou |-> FALSE, body |-> NoBody,
                 rejeitado |-> LinkRejeitado(url),
                 lookupOk |-> FALSE, fetchOk |-> FALSE, cascata |-> {},
                 solo |-> \A q \in Procs \ {p} : proc[q].pc = "idle",
                 snap |-> View,
                 prev |-> IF uuid \in UUIDs THEN last[uuid] ELSE NoImport]
       IN  IF ~ValidarURL(url)
           THEN Return(p, pr, [hist EXCEPT ![p] = h], Falha("URL inválida", NoId))
           ELSE IF uuid = <<>>
           THEN Return(p, pr, [hist EXCEPT ![p] = h],
                       Falha("Erro ao extrair UUID do link", NoId))
           ELSE Continue(p, [pr EXCEPT !.pc = "verificar", !.uuid = uuid],
                         [q \in Procs |->
                            IF q = p THEN h
                            ELSE IF proc[q].pc # "idle"
                                 THEN [hist[q] EXCEPT !.solo = FALSE]
                                 ELSE hist[q]])

\* lines 534-537: an error of the lookup ends Importar before the fetch
FalhaNaVerificacaoMutant(p, pr, hh) == Continue(p, [pr EXCEPT !.pc = "buscar"], hh)
FalhaNaVerificacao(p, pr, hh) ==
    Return(p, pr, hh, Falha("Erro ao verificar oferta existente", NoId))

\* lines 539-540: whatever the lookup found, BuscarDadosAPI is called next;
\* the branch on ofertaExistente comes after it (line 547)
AposVerificarMutant(p, pr, hh) ==
    IF pr.ofertaExistente # NoId /\ ~pr.atualizarExistente
    THEN Return(p, pr, hh, JaExiste(pr.ofertaExistente))
    ELSE Continue(p, [pr EXCEPT !.pc = "buscar"], hh)
AposVerificar(p, pr, hh) == Continue(p, [pr EXCEPT !.pc = "buscar"], hh)

\* lines 533-537: the existence lookup
Verificar(p) ==
    /\ proc[p].pc = "verificar"
    /\ UNCHANGED <<produtos, store, started, overlapped, xin, xout>>
    /\ \E dbOk \in BOOLEAN :
         LET hh == [hist EXCEPT ![p].reads = @ + 1, ![p].lookupOk = dbOk]
         IN  IF ~dbOk
             THEN FalhaNaVerificacao(p, proc[p], hh)
             ELSE AposVerificar(p, [proc[p] EXCEPT !.ofertaExistente =
                                       VerificarOfertaExistente(proc[p].uuid)], hh)

\* lines 540-543: an error of BuscarDadosAPI ends Importar; the GET is not repeated
FalhaNaBuscaMutant(p, pr, hh) == Continue(p, pr, hh)
FalhaNaBusca(p, pr, hh) == Return(p, pr, hh, Falha("Erro ao buscar dados da API", NoId))

\* lines 426-428: http.Client{Timeout: 60s}; a GET the upstream does not
\* answer ends with an error of httpClient.Do when the time is up
EsgotarTempoMutant(p, pr, hh) == Continue(p, [pr EXCEPT !.pc = "aguardando"], hh)
EsgotarTempo(p, pr, hh) == FalhaNaBusca(p, pr, hh)

\* lines 539-551, 458-516: the upstream GET, then the branch on ofertaExistente
Buscar(p) ==
    /\ proc[p].pc = "buscar"
    /\ UNCHANGED <<produtos, store, started, overlapped, xin, xout>>
    /\ \E resp \in Responses :
         LET hh == [hist EXCEPT ![p].http = @ + 1, ![p].fetchOk = (resp.kind = "ok"),
                                ![p].esgotou = (resp.kind = "timeout"),
                                ![p].body = IF resp.kind = "ok" THEN resp.body ELSE NoBody]
             pr == [proc[p] EXCEPT !.dados = Decode(resp.body)]
         IN  IF resp.kind = "timeout"
             THEN EsgotarTempo(p, proc[p], hh)
             ELSE IF resp.kind # "ok"
             THEN FalhaNaBusca(p, proc[p], hh)
             ELSE IF pr.ofertaExistente # NoId
             THEN IF ~pr.atualizarExistente
                  THEN Return(p, pr, hh, JaExiste(pr.ofertaExistente))
                  ELSE Continue(p, [pr EXCEPT !.pc = "atualizar"], hh)
             ELSE Continue(p, [pr EXCEPT !.pc = "salvarOferta"], hh)

\* salvarCavaletesEItens is entered (line 576)
EntrarLaco(p, pr, hh) ==
    IF Len(pr.dados.Cavaletes) = 0
    THEN Return(p, pr, hh, Sucesso(pr.ofertaID))
    ELSE Continue(p, [pr EXCEPT !.pc = "salvarCavalete", !.i = 1], hh)

\* the outer loop of salvarCavaletesEItens moves to the next cavalete
ProximoCavaleteMutant(p, pr, hh) == Return(p, pr, hh, Sucesso(pr.ofertaID))
ProximoCavalete(p, pr, hh) ==
    IF pr.i < Len(pr.dados.Cavaletes)
    THEN Continue(p, [pr EXCEPT !.pc = "salvarCavalete", !.i = @ + 1, !.j = 0], hh)
    ELSE Return(p, pr, hh, Sucesso(pr.ofertaID))

\* line 598: the inner loop over the items of the cavalete just inserted
EntrarItensMutant(p, pr, hh) == ProximoCavalete(p, pr, hh)
EntrarItens(p, pr, hh) ==
    IF Len(pr.dados.Cavaletes[pr.i].Itens) > 0
    THEN Continue(p, [pr EXCEPT !.pc = "salvarItem", !.j = 1], hh)
    ELSE ProximoCavalete(p, pr, hh)

\* lines 592-594, 601-603 and 577-580: a failed insert ends the loop and Importar
AbortarLacoMutant(p, pr, hh) == ProximoCavalete(p, pr, hh)
AbortarLaco(p, pr, hh) ==
    Return(p, pr, hh, Falha("Erro ao salvar cavaletes e itens", pr.ofertaID))

\* line 559: after AtualizarOferta, Importar calls RemoverCavaletesEItens
ChamarRemoverMutant(p, pr, hh) ==
    EntrarLaco(p, [pr EXCEPT !.ofertaID = pr.ofertaExistente], hh)
ChamarRemover(p, pr, hh) == Continue(p, [pr EXCEPT !.pc = "remover"], hh)

\* AtualizarOferta, gateway lines 196-201: UPDATE ofertas ... WHERE id = $1
OfertasAposAtualizarMutant(id, dados) == {OfertaAtualizada(o, dados) : o \in ofertas}
OfertasAposAtualizar(id, dados) ==
    {IF o.id = id THEN OfertaAtualizada(o, dados) ELSE o : o \in ofertas}

\* lines 553-556: AtualizarOferta
Atualizar(p) ==
    /\ proc[p].pc = "atualizar"
    /\ UNCHANGED <<produtos, cavaletes, itens, started, overlapped, xin, xout>>
    /\ \E dbOk \in BOOLEAN :
         LET id == proc[p].ofertaExistente
             ok == dbOk /\ OfertaExiste(id)
             hh == [hist EXCEPT ![p].writes = @ + 1,
                                ![p].ops = Append(@, Op("UPDATE ofertas", 0, 0, ok))]
         IN  IF ~ok
             THEN /\ UNCHANGED ofertas
                  /\ Return(p, proc[p], hh, Falha("Erro ao atualizar oferta", id))
             ELSE /\ ofertas' = OfertasAposAtualizar(id, proc[p].dados)
                  /\ ChamarRemover(p, proc[p], hh)

\* RemoverCavaletesEItens lines 224-235: tx.Exec deletes inside the
\* transaction of tx.Begin; until tx.Commit the other connections read the
\* items as they were
ItensAntesDoCommitMutant(ofertaID) == itens \ ItensDaOferta(ofertaID)
ItensAntesDoCommit(ofertaID) == itens

\* lines 558-564, RemoverCavaletesEItens lines 224-235: the transaction is
\* begun and its first DELETE removes the items; nothing is visible to the
\* other callers before the commit
RemoverItens(p) ==
    /\ proc[p].pc = "remover"
    /\ UNCHANGED <<produtos, ofertas, cavaletes, started, overlapped, xin, xout>>
    /\ LET id == proc[p].ofertaExistente
           alvo == {i.id : i \in ItensDaOferta(id)}
       IN  \* the DELETE waits for rows deleted by a transaction still open
           /\ \A q \in Procs \ {p} : proc[q].tx \cap alvo = {}
           /\ \E dbOk \in BOOLEAN :
                LET hh == [hist EXCEPT ![p].writes = @ + 1,
                             ![p].ops = Append(@, Op("DELETE itens", 0, 0, dbOk))]
                IN  IF ~dbOk
                    THEN /\ UNCHANGED itens
                         /\ Return(p, proc[p], hh,
                                   Falha("Erro ao remover cavaletes e itens antigos", id))
                    ELSE /\ itens' = ItensAntesDoCommit(id)
                         /\ Continue(p, [proc[p] EXCEPT !.pc = "removerCavaletes",
                                                        !.tx = alvo], hh)

\* RemoverCavaletesEItens lines 237-248: the second DELETE removes the
\* cavaletes (ON DELETE CASCADE takes the items they still have) and the
\* transaction commits, or it is rolled back; then the loop
RemoverCavaletes(p) ==
    /\ proc[p].pc = "removerCavaletes"
    /\ UNCHANGED <<ofertas, started, overlapped, xin, xout>>
    /\ \E dbOk \in BOOLEAN :
         LET id == proc[p].ofertaExistente
             hh == [hist EXCEPT ![p].writes = @ + 1,
                      ![p].ops = Append(@, Op("DELETE cavaletes", 0, 0, dbOk)),
                      ![p].cascata = IF dbOk THEN Aprovados(id) ELSE {}]
             pr == [proc[p] EXCEPT !.tx = {}]
         IN  IF ~dbOk
             THEN /\ UNCHANGED <<cavaletes, itens, produtos>>
                  /\ Return(p, pr, hh,
                            Falha("Erro ao remover cavaletes e itens antigos", id))
             ELSE /\ cavaletes' = CavaletesAposRemover(id)
                  \* the items of the first DELETE are among those removed here
                  /\ itens' = ItensAposRemover(id)
                  /\ produtos' = ProdutosAposRemover(id)
                  /\ EntrarLaco(p, [pr EXCEPT !.ofertaID = id], hh)

\* lines 567-570: a failed SalvarOferta ends Importar before the loop
FalhaAoSalvarOfertaMutant(p, pr, hh) == EntrarLaco(p, pr, hh)
FalhaAoSalvarOferta(p, pr, hh) ==
    Return(p, pr, hh, Falha("Erro ao salvar nova oferta", NoId))

\* lines 566-573: SalvarOferta, then the loop
SalvarOferta(p) ==
    /\ proc[p].pc = "salvarOferta"
    /\ UNCHANGED <<produtos, cavaletes, itens, started, overlapped, xin, xout>>
    /\ \E dbOk \in BOOLEAN :
         LET ok == dbOk /\ UniqueUuidLink(proc[p].uuid)
             hh == [hist EXCEPT ![p].writes = @ + 1,
                                ![p].ops = Append(@, Op("INSERT ofertas", 0, 0, ok))]
         IN  IF ~ok
             THEN /\ UNCHANGED ofertas
                  /\ FalhaAoSalvarOferta(p, proc[p], hh)
             ELSE LET id == RowId(proc[p].n, 0, 0)
                  IN  /\ ofertas' = ofertas \cup {OfertaRow(id, proc[p].uuid, proc[p].dados)}
                      /\ EntrarLaco(p, [proc[p] EXCEPT !.ofertaID = id], hh)

\* lines 590-595: SalvarCavalete for cavalete i
SalvarCavalete(p) ==
    /\ proc[p].pc = "salvarCavalete"
    /\ UNCHANGED <<produtos, ofertas, itens, started, overlapped, xin, xout>>
    /\ \E dbOk \in BOOLEAN :
         LET cavalete == proc[p].dados.Cavaletes[proc[p].i]
             ok == dbOk /\ OfertaExiste(proc[p].ofertaID)
             hh == [hist EXCEPT ![p].writes = @ + 1,
                      ![p].ops = Append(@, Op("INSERT cavaletes", proc[p].i, 0, ok))]
         IN  IF ~ok
             THEN /\ UNCHANGED cavaletes
                  /\ AbortarLaco(p, proc[p], hh)
             ELSE LET id == RowId(proc[p].n, proc[p].i, 0)
                      pr == [proc[p] EXCEPT !.cavaleteID = id]
                  IN  /\ cavaletes' = cavaletes \cup
                                        {CavaleteRow(id, proc[p].ofertaID, cavalete)}
                      /\ EntrarItens(p, pr, hh)

\* lines 598-605: SalvarItem for item j of cavalete i
SalvarItem(p) ==
    /\ proc[p].pc = "salvarItem"
    /\ UNCHANGED <<produtos, ofertas, cavaletes, started, overlapped, xin, xout>>
    /\ \E dbOk \in BOOLEAN :
         LET cavalete == proc[p].dados.Cavaletes[proc[p].i]
             item == cavalete.Itens[proc[p].j]
             ok == dbOk /\ CavaleteExiste(proc[p].cavaleteID)
             hh == [hist EXCEPT ![p].writes = @ + 1,
                      ![p].ops = Append(@, Op("INSERT itens", proc[p].i, proc[p].j, ok))]
         IN  IF ~ok
             THEN /\ UNCHANGED itens
                  /\ AbortarLaco(p, proc[p], hh)
             ELSE LET id == RowId(proc[p].n, proc[p].i, proc[p].j)
                  IN  /\ itens' = itens \cup {ItemRow(id, proc[p].cavaleteID, item)}
                      /\ IF proc[p].j < Len(cavalete.Itens)
                         THEN Continue(p, [proc[p] EXCEPT !.j = @ + 1], hh)
                         ELSE ProximoCavalete(p, proc[p], hh)

NoOut == [done |-> FALSE, uuid |-> <<>>, valida |-> FALSE,
          again |-> FALSE, uuid2 |-> <<>>]

NoHist == [http |-> 0, reads |-> 0, writes |-> 0, ops |-> <<>>, esgotou |-> FALSE,
           body |-> NoBody,
           rejeitado |-> FALSE,
           lookupOk |-> FALSE, fetchOk |-> FALSE, solo |-> FALSE,
           cascata |-> {},
           snap |-> <<>>, prev |-> NoImport]

Init ==
    /\ ofertas = {}
    /\ cavaletes = {}
    /\ itens = {}
    /\ produtos = {}
    /\ proc = [p \in Procs |-> IdleProc]
    /\ res = [p \in Procs |-> NoRes]
    /\ started = 0
    /\ hist = [p \in Procs |-> NoHist]
    /\ last = [u \in UUIDs |-> NoImport]
    /\ lastOk = [u \in UUIDs |-> [any |-> FALSE, doc |-> NoDoc]]
    /\ overlapped = FALSE
    /\ xin = <<>>
    /\ xout = NoOut

Next ==
    \/ \E p \in Procs, url \in Links, at \in BOOLEAN : Importar(p, url, at)
    \/ \E p \in Procs : Verificar(p)
    \/ \E p \in Procs : Buscar(p)
    \/ \E p \in Procs : Atualizar(p)
    \/ \E p \in Procs : RemoverItens(p)
    \/ \E p \in Procs : RemoverCavaletes(p)
    \/ \E p \in Procs : SalvarOferta(p)
    \/ \E p \in Procs : SalvarCavalete(p)
    \/ \E p \in Procs : SalvarItem(p)

Spec == Init /\ [][Next]_vars

\* ------------------------------------------------- extraction on its own
\* candidate tokens: every group filled with one character, groups joined by sep
GroupChars == {"3", "c", "C", "g"}
Candidate(c, sep, short) ==
    Rep(c[1], GroupLens[1]) \o <<sep>> \o Rep(c[2], GroupLens[2]) \o <<sep>>
    \o Rep(c[3], GroupLens[3]) \o <<sep>> \o Rep(c[4], GroupLens[4]) \o <<sep>>
    \o Rep(c[5], IF short THEN GroupLens[5] - 1 ELSE GroupLens[5])

Prefixes == {<<>>, DomainMarker \o <<"/">>}
Pads == {Rep("7", n) : n \in 0..MaxPad}

XInputs ==
    {LinkEmpty, LinkNoToken}
    \cup {pre \o l \o Candidate(c, sep, short) \o r :
            pre \in Prefixes, l \in Pads, r \in Pads,
            c \in [1..5 -> GroupChars], sep \in {"-", "_"}, short \in BOOLEAN}

\* one call of ExtrairUUIDLink and one of ValidarURL on the same string
Extrair ==
    /\ ~xout.done
    /\ xout' = [xout EXCEPT !.done = TRUE, !.uuid = ExtrairUUIDLink(xin),
                             !.valida = ValidarURL(xin)]
    /\ UNCHANGED <<produtos, store, proc, res, started, hist, last, lastOk, overlapped, xin>>

\* a second call of ExtrairUUIDLink on the same string
ExtrairDeNovo ==
    /\ xout.done /\ ~xout.again
    /\ xout' = [xout EXCEPT !.again = TRUE, !.uuid2 = ExtrairUUIDLink(xin)]
    /\ UNCHANGED <<produtos, store, proc, res, started, hist, last, lastOk, overlapped, xin>>

InitExtrair ==
    /\ ofertas = {}
    /\ cavaletes = {}
    /\ itens = {}
    /\ produtos = {}
    /\ proc = [p \in Procs |-> IdleProc]
    /\ res = [p \in Procs |-> NoRes]
    /\ started = 0
    /\ hist = [p \in Procs |-> NoHist]
    /\ last = [u \in UUIDs |-> NoImport]
    /\ lastOk = [u \in UUIDs |-> [any |-> FALSE, doc |-> NoDoc]]
    /\ overlapped = FALSE
    /\ xin \in XInputs
    /\ xout = NoOut

NextExtrair == Extrair \/ ExtrairDeNovo

SpecExtrair == InitExtrair /\ [][NextExtrair]_vars

\* ------------------------------------- a store that already holds an offer
\* the IDs of the rows stored by an import made before the run begins
IdAnterior(i, j) == <<-1, i, j>>

\* the rows a successful create import of LinkA with document dados leaves
OfertasDe(dados) == {OfertaRow(IdAnterior(0, 0), TokA, dados)}
CavaletesDoDoc(dados) ==
    {CavaleteRow(IdAnterior(i, 0), IdAnterior(0, 0), dados.Cavaletes[i]) :
        i \in DOMAIN dados.Cavaletes}
ItensDoDoc(dados) ==
    UNION {{ItemRow(IdAnterior(i, j), IdAnterior(i, 0), dados.Cavaletes[i].Itens[j]) :
              j \in DOMAIN dados.Cavaletes[i].Itens} : i \in DOMAIN dados.Cavaletes}

\* the server starts on a database in which LinkA was imported before, the
\* upstream document having been dados
InitCom(dados) ==
    /\ ofertas = OfertasDe(dados)
    /\ cavaletes = CavaletesDoDoc(dados)
    /\ itens = ItensDoDoc(dados)
    /\ produtos = {}
    /\ proc = [p \in Procs |-> IdleProc]
    /\ res = [p \in Procs |-> NoRes]
    /\ started = 0
    /\ hist = [p \in Procs |-> NoHist]
    /\ last = [u \in UUIDs |-> [NoImport EXCEPT !.any = TRUE, !.ok = TRUE,
                                                 !.doc = dados, !.solo = TRUE]]
    /\ lastOk = [u \in UUIDs |-> [any |-> TRUE, doc |-> dados]]
    /\ overlapped = FALSE
    /\ xin = <<>>
    /\ xout = NoOut

InitExistente == InitCom(Decode(JDoc1))

\* the identifier exists, so no import reaches SalvarOferta
NextExistente ==
    \/ \E p \in Procs, url \in Links, at \in BOOLEAN : Importar(p, url, at)
    \/ \E p \in Procs : Verificar(p)
    \/ \E p \in Procs : Buscar(p)
    \/ \E p \in Procs : Atualizar(p)
    \/ \E p \in Procs : RemoverItens(p)
    \/ \E p \in Procs : RemoverCavaletes(p)
    \/ \E p \in Procs : SalvarCavalete(p)
    \/ \E p \in Procs : SalvarItem(p)

SpecExistente == InitExistente /\ [][NextExistente]_vars

\* ----------------------------------------------------- imports under fairness
\* the server starts on an empty database or on one holding the offer
InitJusto == Init \/ \E dados \in Docs : InitCom(dados)

\* one step of the Importar that caller p is running
Passo(p) ==
    \/ Verificar(p) \/ Buscar(p) \/ Atualizar(p) \/ RemoverItens(p)
    \/ RemoverCavaletes(p) \/ SalvarOferta(p) \/ SalvarCavalete(p) \/ SalvarItem(p)

NextJusto ==
    \/ \E p \in Procs, url \in Links, at \in BOOLEAN :
          started < MaxJusto /\ Importar(p, url, at)
    \/ \E p \in Procs : Passo(p)

\* the goroutine of a request keeps running: the GET returns within the
\* client's timeout and the database answers every statement it is sent
SpecJusto == InitJusto /\ [][NextJusto]_vars /\ \A p \in Procs : WF_vars(Passo(p))

\* ================================================================ claims
\* the Importar of caller p has returned
Returned(p) == proc[p].pc = "idle" /\ proc[p].n > 0
\* nothing has touched the store since the Importar of p returned
Fresh(p) ==
    /\ Returned(p)
    /\ \A q \in Procs : proc[q].pc = "idle"
    /\ \A q \in Procs : proc[q].n <= proc[p].n
\* the offer row of identifier u existed when the Importar of p was called
ExistedAtStart(p) ==
    \E id \in DOMAIN hist[p].snap : hist[p].snap[id].row.uuid_link = proc[p].uuid
IdAtStart(p) ==
    CHOOSE id \in DOMAIN hist[p].snap : hist[p].snap[id].row.uuid_link = proc[p].uuid

\* C1: in every reachable state at most one Offer row exists per canonical
\* identifier (uuid_link), whatever Importar calls ran or are running.
C1_UuidLinkUnico ==
    \A o1 \in ofertas : \A o2 \in ofertas : o1.uuid_link = o2.uuid_link => o1 = o2

\* C1 witness: an Importar that found no offer is about to insert one while
\* another Importar has already inserted the offer of the same identifier.
C1_Witness ==
    \E p \in Procs :
        /\ proc[p].pc = "salvarOferta"
        /\ \E o \in ofertas : o.uuid_link = proc[p].uuid

\* C2: a second successful replace import of the same link, run right after a
\* first one that fetched the same document, leaves the store as the first
\* left it: the same Offer row and the same children by content.
C2_ReimportIdempotente ==
    \A p \in Procs :
        ( /\ Fresh(p) /\ res[p].sucesso /\ proc[p].atualizarExistente
          /\ hist[p].solo
          /\ hist[p].prev.any /\ hist[p].prev.ok /\ hist[p].prev.flag
          /\ hist[p].prev.solo /\ hist[p].prev.doc = proc[p].dados )
        => View = hist[p].snap

\* C2 witness: such a second import has returned, over a document with children.
C2_Witness ==
    \E p \in Procs :
        /\ Fresh(p) /\ res[p].sucesso /\ proc[p].atualizarExistente
        /\ hist[p].solo
        /\ hist[p].prev.any /\ hist[p].prev.ok /\ hist[p].prev.flag
        /\ hist[p].prev.solo /\ hist[p].prev.doc = proc[p].dados
        /\ proc[p].ofertaExistente # NoId
        /\ itens # {}

\* C3: after a successful Importar of an unseen identifier with no concurrent
\* import, exactly one Offer has the identifier, it has one cavalete per
\* cavalete of the document, and the cavalete inserted for position i has as
\* many items as cavalete i of the document.
C3_ContagemNaCriacao ==
    \A p \in Procs :
        ( /\ Fresh(p) /\ res[p].sucesso /\ hist[p].solo
          /\ ~ExistedAtStart(p) )
        => LET os == {o \in ofertas : o.uuid_link = proc[p].uuid}
               cs == proc[p].dados.Cavaletes
           IN  /\ Cardinality(os) = 1
               /\ \A o \in os :
                    /\ o.id = res[p].id
                    /\ Cardinality(CavaletesDe(o.id)) = Len(cs)
                    /\ {c.id : c \in CavaletesDe(o.id)}
                         = {RowId(proc[p].n, i, 0) : i \in DOMAIN cs}
                    /\ \A i \in DOMAIN cs :
                         Cardinality(ItensDe(RowId(proc[p].n, i, 0))) = Len(cs[i].Itens)

\* C3 witness: a create import of the two-cavalete document has returned true.
C3_Witness ==
    \E p \in Procs :
        /\ Fresh(p) /\ res[p].sucesso /\ hist[p].solo /\ ~ExistedAtStart(p)
        /\ Len(proc[p].dados.Cavaletes) = 2
        /\ Cardinality(itens) = 2

\* C4: after a successful replace import that follows a successful import of
\* the same identifier with a different document, the children of the Offer
\* are exactly those of the second document, and every child row under the
\* Offer was inserted by the second import.
C4_SubstituicaoConverge ==
    \A p \in Procs :
        ( /\ Fresh(p) /\ res[p].sucesso /\ proc[p].atualizarExistente
          /\ hist[p].solo
          /\ hist[p].prev.any /\ hist[p].prev.ok
          /\ hist[p].prev.doc # proc[p].dados )
        => /\ Children(res[p].id) = DocChildren(proc[p].dados)
           /\ \A c \in cavaletes : c.id[1] # hist[p].prev.n
           /\ \A i \in itens : i.id[1] # hist[p].prev.n

\* C4 witness: the first import stored the document with items and the second
\* import replaced it by the document with one cavalete and no item.
C4_Witness ==
    \E p \in Procs :
        /\ Fresh(p) /\ res[p].sucesso /\ proc[p].atualizarExistente
        /\ hist[p].solo /\ hist[p].prev.any /\ hist[p].prev.ok
        /\ Len(hist[p].prev.doc.Cavaletes) = 2
        /\ Len(proc[p].dados.Cavaletes) = 1
        /\ Cardinality(cavaletes) = 1

\* an Importar that was called for an existing offer without the update flag
Declinavel(p) ==
    /\ proc[p].n > 0
    /\ proc[p].uuid \in UUIDs
    /\ ~proc[p].atualizarExistente
    /\ ExistedAtStart(p)

\* C5 as stated: Importar on an existing identifier with
\* replace_if_existing=false returns the AlreadyExists outcome carrying the
\* existing Offer's internal ID (here: whenever its lookup found the offer).
C5_Original ==
    \A p \in Procs :
        (Returned(p) /\ Declinavel(p) /\ hist[p].lookupOk)
        => res[p] = JaExiste(IdAtStart(p))

\* C5 (amended): no step of an Importar called on an existing identifier with
\* replace_if_existing=false changes offers, cavaletes or items; when its
\* existence lookup and its upstream fetch both succeed it returns the
\* AlreadyExists outcome with the existing internal ID, otherwise it returns a
\* failure without an ID.
C5_DeclinioSemEfeito ==
    [][ \A p \in Procs :
          (proc'[p] # proc[p] /\ Declinavel(p)')
          => /\ UNCHANGED store
             /\ proc'[p].pc = "idle" =>
                  IF hist'[p].lookupOk /\ hist'[p].fetchOk
                  THEN /\ res'[p].id = IdAtStart(p)'
                       /\ res'[p].id # NoId
                       /\ ~res'[p].err
                       /\ res'[p].mensagem = "Oferta já existe e atualização não foi solicitada"
                  ELSE res'[p].err /\ res'[p].id = NoId ]_vars

\* C5 witness: a declined import has returned the existing ID, children in place.
C5_Witness ==
    \E p \in Procs :
        /\ Returned(p) /\ Declinavel(p)
        /\ res[p] = JaExiste(IdAtStart(p))
        /\ cavaletes # {}

\* ImportarOferta: the response body and status the handler builds from the
\* values Importar returned
ImportResponse(r) ==
    [Sucesso |-> r.sucesso, Mensagem |-> r.mensagem,
     status |-> IF r.sucesso THEN 200 ELSE IF r.err THEN 500 ELSE 400]

\* C6 as stated: the result of Importar on an existing identifier with
\* replace_if_existing=false (lookup and fetch having succeeded) is a
\* non-error outcome with succeeded=true.
C6_Original ==
    \A p \in Procs :
        ( /\ Returned(p) /\ Declinavel(p)
          /\ hist[p].lookupOk /\ hist[p].fetchOk )
        => /\ ~res[p].err
           /\ ImportResponse(res[p]).Sucesso

\* C7: an Importar whose link lacks the provider domain marker or contains no
\* identifier token returns the failure at once: it never reaches a step that
\* does I/O, and it has issued no HTTP call, no store read and no store write.
C7_RejeicaoAntesDeIO ==
    \A p \in Procs :
        (proc[p].n > 0 /\ hist[p].rejeitado)
        => /\ proc[p].pc = "idle"
           /\ res[p] = Falha("URL inválida", NoId)
           /\ hist[p].http = 0 /\ hist[p].reads = 0 /\ hist[p].writes = 0

\* C7 witness: an Importar of a link with a token but without the domain marker
\* has returned while the store holds an offer.
C7_Witness ==
    \E p \in Procs :
        /\ Returned(p)
        /\ hist[p].rejeitado
        /\ ofertas # {}
        /\ ~Contains(proc[p].url, DomainMarker)
        /\ ExtrairUUIDLink(proc[p].url) # <<>>

\* the string holds a substring of the 8-4-4-4-12 form, hex digits in any case
HasTokenAnyCase(s) ==
    \E i \in 1..Len(s) :
        /\ i + TokenLen - 1 <= Len(s)
        /\ \A k \in 1..TokenLen :
              IF k \in HyphenPos THEN s[i + k - 1] = "-"
                                 ELSE IsHexAnyCase(s[i + k - 1])

\* C8 as stated: ExtrairUUIDLink returns an identifier if and only if the
\* string contains a substring of the 8-4-4-4-12 hyphen-delimited hexadecimal
\* form with hex digits in either case.
C8_Original == xout.done => ((xout.uuid # <<>>) <=> HasTokenAnyCase(xin))

\* C9 as stated: whenever no import is in progress, the children stored under
\* each Offer are exactly the children of the document of the most recent
\* successful import of its identifier (here: after imports that ran one
\* after the other, some of them failing).
C9_Original ==
    ((\A p \in Procs : proc[p].pc = "idle") /\ ~overlapped)
    => \A o \in ofertas :
          lastOk[o.uuid_link].any
          => Children(o.id) = DocChildren(lastOk[o.uuid_link].doc)

\* the documents an observer may see complete under identifier u: the one of
\* the last successful import and the ones fetched by the running imports
Candidatos(u) ==
    {lastOk[u].doc : x \in {y \in {1} : lastOk[u].any}}
    \cup {proc[p].dados : p \in {q \in Procs : proc[q].uuid = u /\ hist[q].fetchOk}}

\* C10 as stated: in no reachable state does an Offer hold children other than
\* the complete children of the previously imported document or the complete
\* children of a newly fetched one.
C10_Original ==
    \A o \in ofertas :
        \E d \in Candidatos(o.uuid_link) : Children(o.id) = DocChildren(d)

\* the Importar of p has done its existence lookup and not yet returned: it
\* is between the lookup and its last store write
EmSincronizacao(p) == proc[p].pc \notin {"idle", "verificar"}

\* C11 as stated: at most one synchronization per canonical identifier is in
\* progress at any time: two Importar calls for the same identifier are never
\* both between their existence lookup and their last store write.
C11_Original ==
    \A p, q \in Procs :
        (p # q /\ EmSincronizacao(p) /\ EmSincronizacao(q))
        => proc[p].uuid # proc[q].uuid

\* the Importar calls of p and q, the two latest, ran at the same time on the
\* replace path of the same existing offer, and both returned success
SubstituicoesSobrepostas(p, q) ==
    /\ p # q
    /\ \A r \in Procs : proc[r].pc = "idle"
    /\ {proc[p].n, proc[q].n} = {started - 1, started}
    /\ ~hist[p].solo /\ ~hist[q].solo
    /\ proc[p].atualizarExistente /\ proc[q].atualizarExistente
    /\ proc[p].uuid = proc[q].uuid
    /\ proc[p].ofertaExistente # NoId
    /\ proc[p].ofertaExistente = proc[q].ofertaExistente
    /\ res[p].sucesso /\ res[q].sucesso

\* C12 as stated: when two overlapping Importar calls with
\* replace_if_existing=true for the same existing identifier both complete
\* successfully, the children stored under the Offer are exactly the children
\* of one of the two fetched documents; the store never ends with a mixture
\* or the union of both documents' children.
C12_Original ==
    \A p, q \in Procs :
        SubstituicoesSobrepostas(p, q)
        => \E w \in {p, q} :
              Children(proc[p].ofertaExistente) = DocChildren(proc[w].dados)

\* the positions of s at which a token of the 8-4-4-4-12 form begins, hex
\* digits in any case
TokensAnyCase(s) ==
    {i \in 1..Len(s) :
        /\ i + TokenLen - 1 <= Len(s)
        /\ \A k \in 1..TokenLen :
              IF k \in HyphenPos THEN s[i + k - 1] = "-"
                                 ELSE IsHexAnyCase(s[i + k - 1])}

\* C13 as stated: ExtrairUUIDLink is deterministic and has no effect on the
\* store: for any string containing exactly one valid token, running
\* extraction twice yields the same identifier both times, and that
\* identifier is the token contained in the string.
C13_Original ==
    (xout.again /\ Cardinality(TokensAnyCase(xin)) = 1)
    => LET i == CHOOSE k \in TokensAnyCase(xin) : TRUE
       IN  /\ xout.uuid = SubSeq(xin, i, i + TokenLen - 1)
           /\ xout.uuid2 = xout.uuid
           /\ ofertas = {} /\ cavaletes = {} /\ itens = {}

\* the statements of the child-insertion loop
Insercoes == {"INSERT cavaletes", "INSERT itens"}
\* position (i, j) of the document comes before position (k, l) in the
\* traversal cavalete 1, its items, cavalete 2, its items, ...
PosAntes(i, j, k, l) == i < k \/ (i = k /\ j < l)
\* the indexes of the failed inserts among the statements of the import of p
InsercoesFalhas(p) ==
    {k \in DOMAIN hist[p].ops : hist[p].ops[k].op \in Insercoes /\ ~hist[p].ops[k].ok}
\* the child rows in the store that the import of p inserted, as positions
FilhosDe(p) ==
    {<<r.id[2], r.id[3]>> : r \in {x \in cavaletes \cup itens : x.id[1] = proc[p].n}}
\* the positions the import of p has inserted successfully
Inseridos(p) ==
    {<<hist[p].ops[k].i, hist[p].ops[k].j>> :
        k \in {x \in DOMAIN hist[p].ops :
                 hist[p].ops[x].op \in Insercoes /\ hist[p].ops[x].ok}}

\* C14: in the child-insertion loop the first failing cavalete or item insert
\* stops the import: it is the last statement of the import, no child at or
\* after its position in document order is in the store, Importar has
\* returned the failure, and (no other import having run since the import
\* began) the Offer and every child inserted before the failure are in the store.
C14_PrimeiraFalhaPara ==
    \A p \in Procs :
        (proc[p].n > 0 /\ InsercoesFalhas(p) # {})
        => LET f == hist[p].ops[Len(hist[p].ops)]
           IN  /\ InsercoesFalhas(p) = {Len(hist[p].ops)}
               /\ proc[p].pc = "idle"
               /\ res[p] = Falha("Erro ao salvar cavaletes e itens", proc[p].ofertaID)
               /\ \A c \in FilhosDe(p) : PosAntes(c[1], c[2], f.i, f.j)
               /\ (Fresh(p) /\ hist[p].solo)
                  => /\ OfertaExiste(proc[p].ofertaID)
                     /\ FilhosDe(p) = Inseridos(p)

\* C14 witness: a create import whose second item insert failed has returned;
\* the offer, its first cavalete and the first item are in the store.
C14_Witness ==
    \E p \in Procs :
        /\ Fresh(p) /\ hist[p].solo
        /\ proc[p].ofertaExistente = NoId
        /\ InsercoesFalhas(p) # {}
        /\ hist[p].ops[Len(hist[p].ops)] = Op("INSERT itens", 1, 2, FALSE)
        /\ FilhosDe(p) = {<<1, 0>>, <<1, 1>>}
        /\ OfertaExiste(proc[p].ofertaID)

\* the offer row with this ID
OfertaDe(ofertaID) == CHOOSE o \in ofertas : o.id = ofertaID
\* the row carries the fields of the document
CamposDe(o, dados) ==
    /\ o.situacao = dados.Situacao
    /\ o.nome_empresa = dados.NomeEmpresa
    /\ o.url_logo = dados.URLLogo
    /\ o.dados_completos = Marshal(dados)
\* the IDs of the cavaletes of the offer and of their items
FilhosSob(ofertaID) ==
    {c.id : c \in CavaletesDe(ofertaID)} \cup {i.id : i \in ItensDaOferta(ofertaID)}
\* the import of p took the replace path and nothing else has run since it began
SubstituicaoSo(p) ==
    /\ Fresh(p) /\ hist[p].solo
    /\ proc[p].atualizarExistente
    /\ proc[p].ofertaExistente # NoId
    /\ hist[p].fetchOk

\* C15: a failing step of Importar aborts every remaining step and never
\* undoes the writes that already succeeded in that import. The failed
\* statement is the last one of the import, which has returned an error.
\* After a replace import that ran alone: failed at the update, the store
\* is as before; failed at the deletion, the Offer row has the fresh
\* document's fields and the previous children are all there; failed
\* during child insertion, the Offer row has the fresh document's fields,
\* the previous children are deleted and the children under the Offer are
\* exactly those inserted before the failure.
C15_FalhaNaoDesfaz ==
    \A p \in Procs :
        LET ops == hist[p].ops
            falhas == {k \in DOMAIN ops : ~ops[k].ok}
        IN  (proc[p].n > 0 /\ falhas # {})
            => /\ falhas = {Len(ops)}
               /\ proc[p].pc = "idle" /\ res[p].err /\ ~res[p].sucesso
               /\ SubstituicaoSo(p)
                  => LET id == proc[p].ofertaExistente
                         f == ops[Len(ops)]
                     IN  IF f.op = "UPDATE ofertas"
                         THEN View = hist[p].snap
                         ELSE /\ OfertaExiste(id)
                              /\ OfertaDe(id).uuid_link = proc[p].uuid
                              /\ CamposDe(OfertaDe(id), proc[p].dados)
                              /\ IF f.op \in Insercoes
                                 THEN FilhosSob(id) =
                                        {RowId(proc[p].n, a[1], a[2]) : a \in Inseridos(p)}
                                 ELSE Children(id) = hist[p].snap[id].children

\* C15 witness: the offer was imported with the one-cavalete document; a
\* replace import fetched the two-cavalete document and failed at the insert
\* of the second cavalete: the row has the new fields, the old cavalete is
\* gone, the first new cavalete and its two items are stored.
C15_Witness ==
    \E p \in Procs :
        /\ SubstituicaoSo(p)
        /\ hist[p].snap[proc[p].ofertaExistente].row.situacao = "fechada"
        /\ proc[p].dados = Decode(JDoc1)
        /\ hist[p].ops[Len(hist[p].ops)] = Op("INSERT cavaletes", 2, 0, FALSE)
        /\ OfertaDe(proc[p].ofertaExistente).situacao = "aberta"
        /\ Cardinality(cavaletes) = 1 /\ Cardinality(itens) = 2

\* C16: in every reachable state, under any interleaving of imports, every
\* stored cavalete references exactly one existing Offer and every stored
\* item references exactly one existing cavalete: no child row is present
\* without its parent row.
C16_FilhosTemPai ==
    /\ \A c \in cavaletes : Cardinality({o \in ofertas : o.id = c.oferta_id}) = 1
    /\ \A i \in itens : Cardinality({c \in cavaletes : c.id = i.cavalete_id}) = 1

\* C16 witness: an import is about to insert an item of a cavalete that the
\* RemoverCavaletesEItens of another import has deleted meanwhile.
C16_Witness ==
    \E p \in Procs :
        /\ proc[p].pc = "salvarItem"
        /\ ~CavaleteExiste(proc[p].cavaleteID)
        /\ \E q \in Procs \ {p} : proc[q].pc = "salvarCavalete"

\* C17: on the replace path of Importar the store statements occur in this
\* order: the update of the Offer row, the deletion of the items of the
\* Offer's cavaletes, the deletion of the Offer's cavaletes, then the inserts
\* of the loop, each statement issued only after the one before it
\* succeeded. No child of the new document is inserted before the old
\* children have been deleted: once an import that runs alone has inserted
\* a child, every child under the Offer is one it inserted.
C17_OrdemDaSubstituicao ==
    \A p \in Procs :
        (proc[p].n > 0 /\ proc[p].ofertaExistente # NoId)
        => LET ops == hist[p].ops
               id == proc[p].ofertaExistente
           IN  /\ \A k \in DOMAIN ops :
                    /\ k = 1 => ops[k].op = "UPDATE ofertas"
                    /\ k = 2 => ops[k].op = "DELETE itens"
                    /\ k = 3 => ops[k].op = "DELETE cavaletes"
                    /\ k > 3 => ops[k].op \in Insercoes
                    /\ k > 1 => ops[k - 1].ok
               /\ proc[p].pc \in {"atualizar", "remover", "removerCavaletes"}
                  => Len(ops) < 3 /\ FilhosDe(p) = {}
               /\ (hist[p].solo /\ proc[p].n = started /\ Inseridos(p) # {})
                  => \A x \in FilhosSob(id) : x[1] = proc[p].n

\* C17 witness: a replace import of an offer that had children has updated
\* the row, deleted the items, deleted the cavaletes and inserted its first
\* cavalete, and is still in the loop.
C17_Witness ==
    \E p \in Procs :
        /\ proc[p].pc = "salvarItem"
        /\ proc[p].ofertaExistente # NoId
        /\ hist[p].solo
        /\ hist[p].snap[proc[p].ofertaExistente].children # <<>>
        /\ hist[p].ops = << Op("UPDATE ofertas", 0, 0, TRUE), Op("DELETE itens", 0, 0, TRUE),
                            Op("DELETE cavaletes", 0, 0, TRUE),
                            Op("INSERT cavaletes", 1, 0, TRUE) >>

\* C18: when RemoverCavaletesEItens succeeds for an Offer, no cavalete of
\* that Offer remains, no item of any of the cavaletes it deleted remains (no
\* item survives the deletion of its cavalete), and the offers are untouched,
\* the Offer's row included.
C18_RemocaoCompleta ==
    [][ \A p \in Procs :
          ( /\ proc[p].pc = "removerCavaletes"
            /\ proc'[p].pc # "removerCavaletes"
            /\ hist'[p].ops[Len(hist'[p].ops)].ok )
          => LET id == proc[p].ofertaExistente
                 removidos == {c.id : c \in CavaletesDe(id)}
             IN  /\ \A c \in cavaletes' : c.oferta_id # id
                 /\ \A i \in itens' : i.cavalete_id \notin removidos
                 /\ \A i \in itens' : \E c \in cavaletes' : c.id = i.cavalete_id
                 /\ ofertas' = ofertas
                 /\ \E o \in ofertas' : o.id = id ]_vars

\* C18 witness: RemoverCavaletesEItens has just succeeded on an offer that had
\* two cavaletes and two items; the offer row is there, without children.
C18_Witness ==
    \E p \in Procs :
        /\ proc[p].pc = "salvarCavalete" /\ proc[p].i = 1
        /\ proc[p].ofertaExistente # NoId
        /\ hist[p].solo
        /\ hist[p].snap[proc[p].ofertaExistente].children = DocChildren(Decode(JDoc1))
        /\ hist[p].ops[Len(hist[p].ops)] = Op("DELETE cavaletes", 0, 0, TRUE)
        /\ OfertaExiste(proc[p].ofertaExistente)
        /\ cavaletes = {} /\ itens = {}

RECURSIVE Travessia(_, _)
Travessia(dados, k) ==
    IF k = 0 THEN <<>>
    ELSE Travessia(dados, k - 1) \o << <<k, 0>> >>
         \o [j \in 1..Len(dados.Cavaletes[k].Itens) |-> <<k, j>>]
\* the positions the import of p has inserted, in the order of the inserts
InsercaoFeita(o) == o.op \in Insercoes /\ o.ok
SequenciaInserida(p) ==
    LET feitas == SelectSeq(hist[p].ops, InsercaoFeita)
    IN  [k \in DOMAIN feitas |-> <<feitas[k].i, feitas[k].j>>]

\* C20: at every state of a single Importar's child-insertion loop, and
\* after it, the children inserted so far form a prefix of the document's
\* traversal order (a cavalete before any of its items, all items of a
\* cavalete before the next cavalete); while the loop runs the prefix ends
\* just before the position the loop is at, and when nothing else has run
\* since the import began the children of the import in the store are
\* exactly that prefix.
C20_PrefixoDaTravessia ==
    \A p \in Procs :
        (proc[p].n > 0 /\ hist[p].fetchOk)
        => LET ordem == Travessia(proc[p].dados, Len(proc[p].dados.Cavaletes))
               feitas == SequenciaInserida(p)
           IN  /\ Len(feitas) <= Len(ordem)
               /\ feitas = SubSeq(ordem, 1, Len(feitas))
               /\ proc[p].pc \in {"salvarCavalete", "salvarItem"}
                  => ordem[Len(feitas) + 1] = <<proc[p].i, proc[p].j>>
               /\ (hist[p].solo /\ proc[p].n = started)
                  => FilhosDe(p) = {feitas[k] : k \in DOMAIN feitas}

\* C20 witness: an import of the two-cavalete document is in its loop, about
\* to insert the second cavalete: the first cavalete and its two items are
\* stored.
C20_Witness ==
    \E p \in Procs :
        /\ proc[p].pc = "salvarCavalete" /\ proc[p].i = 2
        /\ hist[p].solo
        /\ SequenciaInserida(p) = << <<1, 0>>, <<1, 1>>, <<1, 2>> >>
        /\ FilhosDe(p) = {<<1, 0>>, <<1, 1>>, <<1, 2>>}

\* the Importar of p has met a failure: of its lookup, of its fetch or of a
\* store statement
Falhou(p) ==
    \/ hist[p].reads > 0 /\ ~hist[p].lookupOk
    \/ hist[p].http > 0 /\ ~hist[p].fetchOk
    \/ \E k \in DOMAIN hist[p].ops : ~hist[p].ops[k].ok

\* C21: during one Importar at most one upstream HTTP GET is issued and no
\* failed operation is re-attempted: there is at most one lookup, no store
\* statement is issued twice, and a transport error, a timeout, a non-200
\* status, an undecodable body or a store error ends the import with a
\* failure, nothing being issued after it.
C21_UmGetSemRepeticao ==
    \A p \in Procs :
        proc[p].n > 0
        => LET ops == hist[p].ops
           IN  /\ hist[p].http <= 1
               /\ hist[p].reads <= 1
               /\ hist[p].writes = Len(ops)
               /\ \A k, l \in DOMAIN ops :
                     (ops[k].op = ops[l].op /\ ops[k].i = ops[l].i /\ ops[k].j = ops[l].j)
                     => k = l
               /\ hist[p].reads = 0 => hist[p].http = 0
               /\ ~hist[p].lookupOk => hist[p].http = 0
               /\ ~hist[p].fetchOk => ops = <<>>
               /\ \A k \in DOMAIN ops : ~ops[k].ok => k = Len(ops)
               /\ Falhou(p)
                  => proc[p].pc = "idle" /\ res[p].err /\ ~res[p].sucesso

\* C21 witness: an import whose lookup succeeded has issued its one GET, the
\* GET failed and the import has returned the fetch failure while the store
\* holds an offer.
C21_Witness ==
    \E p \in Procs :
        /\ Returned(p)
        /\ hist[p].reads = 1 /\ hist[p].lookupOk
        /\ hist[p].http = 1 /\ ~hist[p].fetchOk
        /\ res[p] = Falha("Erro ao buscar dados da API", NoId)
        /\ ofertas # {}

\* C22: every Importar call eventually returns a result: no import stays in
\* progress forever, even when the upstream does not answer.
C22_ImportarRetorna ==
    \A p \in Procs : (proc[p].pc # "idle") ~> (proc[p].pc = "idle")

\* C22 witness: the upstream gave no answer to the GET of an import of the
\* existing offer; the client's timeout ended the wait and the import has
\* returned the fetch failure.
C22_Witness ==
    \E p \in Procs :
        /\ Returned(p)
        /\ hist[p].esgotou
        /\ proc[p].ofertaExistente # NoId
        /\ res[p] = Falha("Erro ao buscar dados da API", NoId)

\* C23: VerificarOfertaExistente returns 'not found' without an error when no
\* Offer has the identifier and the internal ID when one does; a data-access
\* failure is returned as an error, on which Importar fails at the
\* existence-check stage without touching the store; Importar is on the
\* create path only when its lookup returned 'not found' without error.
C23_ConsultaDeExistencia ==
    [][ \A p \in Procs :
          /\ (proc[p].pc = "verificar" /\ proc'[p].pc # "verificar")
             => IF hist'[p].lookupOk
                THEN /\ proc'[p].pc = "buscar"
                     /\ res'[p] = res[p]
                     /\ IF \E o \in ofertas : o.uuid_link = proc[p].uuid
                        THEN \E o \in ofertas : /\ o.uuid_link = proc[p].uuid
                                                /\ proc'[p].ofertaExistente = o.id
                        ELSE proc'[p].ofertaExistente = NoId
                ELSE /\ proc'[p].pc = "idle"
                     /\ res'[p] = Falha("Erro ao verificar oferta existente", NoId)
                     /\ hist'[p].http = 0 /\ hist'[p].ops = <<>>
                     /\ UNCHANGED store
          /\ proc'[p].pc = "salvarOferta"
             => hist'[p].lookupOk /\ proc'[p].ofertaExistente = NoId
          /\ proc'[p].pc \in {"atualizar", "remover", "removerCavaletes"}
             => hist'[p].lookupOk /\ proc'[p].ofertaExistente # NoId ]_vars

\* C23 witness: an import has failed at its lookup, with the failure of the
\* existence-check stage, while the offer of its identifier exists.
C23_Witness ==
    \E p \in Procs :
        /\ Returned(p)
        /\ hist[p].reads = 1 /\ ~hist[p].lookupOk
        /\ res[p] = Falha("Erro ao verificar oferta existente", NoId)
        /\ \E o \in ofertas : o.uuid_link = proc[p].uuid

\* the dimensional fields of a cavalete or item: JSON name and column name
Dimensoes == {<<"comprimento", "comprimento">>, <<"altura", "altura">>,
              <<"metragem", "metragem">>}
\* the stored row r holds the dimensional fields of the JSON object j as the
\* claim says: a field left out is NULL (no number), a field given is its number
DimensoesFieis(j, r) ==
    \A d \in Dimensoes :
        IF j[d[1]].given THEN r.col[d[2]] = j[d[1]].val
                         ELSE r.col[d[2]] \notin Int

\* C24 as stated: when the upstream document omits an optional dimensional
\* field of a cavalete or item (length, height, area), the stored row has
\* that field absent (NULL), not zero; a field the document gives as 0 is
\* stored as 0.
C24_Original ==
    \A p \in Procs :
        hist[p].fetchOk
        => /\ \A c \in cavaletes :
                c.id[1] = proc[p].n
                => DimensoesFieis(hist[p].body.cavaletes[c.id[2]], c)
           /\ \A i \in itens :
                i.id[1] = proc[p].n
                => DimensoesFieis(hist[p].body.cavaletes[i.id[2]].itens[i.id[3]], i)

\* ------------------------------------------------- two identifiers
\* the offer of identifier A is stored; one caller imports A again while the
\* other imports identifier B (line 519: Importar takes the url of its request)
NextDois ==
    \/ \E at \in BOOLEAN : Importar("p1", LinkA, at)
    \/ \E at \in BOOLEAN : Importar("p2", LinkB, at)
    \/ \E p \in Procs : Passo(p)
SpecDois == InitExistente /\ [][NextDois]_vars

\* the rows of an identifier: its offer, the cavaletes under it, their items
RowsOf(u) ==
    LET os == {o \in ofertas : o.uuid_link = u}
        cs == {c \in cavaletes : \E o \in os : o.id = c.oferta_id}
    IN  <<os, cs, {i \in itens : \E c \in cs : c.id = i.cavalete_id}>>
\* the identifier the step of caller p works for
Servido(p) == IF proc[p].pc = "idle" THEN proc[p].uuid' ELSE proc[p].uuid
\* a step changes only the rows of the identifier its Importar was called with
SoOProprio ==
    \A p \in Procs : proc[p]' # proc[p] =>
        \A u \in {TokA, TokB} : u # Servido(p) => RowsOf(u)' = RowsOf(u)
\* every cavalete is under one offer and every item under one cavalete
UmDono ==
    /\ \A c \in cavaletes :
         /\ Cardinality({o \in ofertas : o.id = c.oferta_id}) = 1
         /\ \A d \in cavaletes : d.id = c.id => d = c
    /\ \A i \in itens :
         /\ Cardinality({c \in cavaletes : c.id = i.cavalete_id}) = 1
         /\ \A k \in itens : k.id = i.id => k = i
\* C25: an Importar for one identifier never inserts, updates or deletes the
\* offer, cavaletes or items of another identifier, on any path, and no
\* cavalete or item is ever owned by two offers
C25_SoOProprioIdentificador == [][SoOProprio]_vars /\ []UmDono
\* identifier A was replaced with success while identifier B has stored children
C25_Witness ==
    /\ Returned("p1") /\ res["p1"].sucesso /\ proc["p1"].ofertaExistente # NoId
    /\ RowsOf(TokA)[2] # {}
    /\ Returned("p2") /\ res["p2"].sucesso
    /\ RowsOf(TokB)[2] # {} /\ RowsOf(TokB)[3] # {}

\* ------------------------------------------------- overlapping creates
\* the statements of this kind the import of p has issued
OpsDe(p, nome) == {k \in DOMAIN hist[p].ops : hist[p].ops[k].op = nome}
\* the import of p found no offer of its identifier and issued the Offer insert
TentouCriar(p) ==
    /\ proc[p].n > 0 /\ hist[p].lookupOk /\ proc[p].ofertaExistente = NoId
    /\ OpsDe(p, "INSERT ofertas") # {}
\* the Offer insert of p succeeded
Criou(p) == \E k \in OpsDe(p, "INSERT ofertas") : hist[p].ops[k].ok
\* the import of p ended at the Offer insert: a persistence failure, no child
PerdeuACorrida(p) ==
    /\ Returned(p)
    /\ res[p] = Falha("Erro ao salvar nova oferta", NoId)
    /\ OpsDe(p, "INSERT cavaletes") = {} /\ OpsDe(p, "INSERT itens") = {}
    /\ \A c \in cavaletes : c.id[1] # proc[p].n
    /\ \A i \in itens : i.id[1] # proc[p].n
Escreve(p) == hist[p].writes' > hist[p].writes
\* the step is the upstream GET of the import of p
Busca(p) == hist[p].http' > hist[p].http
\* the lookup or the fetch of the import of p has failed
SemDados(p) ==
    \/ hist[p].reads > 0 /\ ~hist[p].lookupOk
    \/ hist[p].http > 0 /\ ~hist[p].fetchOk
Declinado(p) ==
    /\ proc[p].n > 0 /\ hist[p].lookupOk
    /\ proc[p].ofertaExistente # NoId /\ ~proc[p].atualizarExistente
\* C28: for an existing identifier with replace_if_existing=false Importar
\* issues the upstream fetch before it decides: it returns only after its GET,
\* the already-exists outcome with the existing id exactly when the fetch
\* succeeded and the fetch failure without an id when the fetch failed
C28_DeclinioDependeDaBusca ==
    \A p \in Procs :
        Declinado(p)
        => /\ proc[p].pc \in {"buscar", "idle"}
           /\ hist[p].writes = 0
           /\ proc[p].pc = "buscar" => hist[p].http = 0
           /\ proc[p].pc = "idle"
              => /\ hist[p].http = 1
                 /\ hist[p].fetchOk <=> res[p] = JaExiste(proc[p].ofertaExistente)
                 /\ ~hist[p].fetchOk <=> res[p] = Falha("Erro ao buscar dados da API", NoId)
\* a declined import of a stored offer has returned the fetch failure, no id
C28_Witness ==
    \E p \in Procs :
        /\ Declinado(p) /\ Returned(p)
        /\ hist[p].http = 1 /\ ~hist[p].fetchOk
        /\ res[p] = Falha("Erro ao buscar dados da API", NoId)
        /\ \E o \in ofertas : o.id = proc[p].ofertaExistente

\* ------------------------------------------------- the removal is one transaction
\* the last statement the import of p issued
UltimaOp(p) == hist[p].ops[Len(hist[p].ops)]
\* the step belongs to the RemoverCavaletesEItens call of p
PassoDeRemover(p) ==
    proc[p].pc \in {"remover", "removerCavaletes"} /\ proc[p]' # proc[p]
\* a step of the call that does not commit leaves every child where it was
SemCommitSemEfeito ==
    \A p \in Procs : PassoDeRemover(p) =>
        /\ proc[p].pc = "remover" => UNCHANGED <<cavaletes, itens>>
        /\ ~UltimaOp(p)'.ok => UNCHANGED <<cavaletes, itens>>
\* while the transaction of p is open, a stored cavalete is read with the
\* items the transaction has deleted from it
DentroDaTransacao ==
    \A p \in Procs : proc[p].pc = "removerCavaletes" =>
        \A id \in proc[p].tx :
            (\E c \in cavaletes : c.id = RowId(id[1], id[2], 0))
            => \E i \in itens : i.id = id
\* a RemoverCavaletesEItens that ran alone and failed left the children of its
\* offer as they were before the call
FalhaSemEfeito ==
    \A p \in Procs :
        ( /\ Fresh(p) /\ hist[p].solo /\ hist[p].ops # <<>>
          /\ UltimaOp(p).op \in {"DELETE itens", "DELETE cavaletes"}
          /\ ~UltimaOp(p).ok )
        => Children(proc[p].ofertaExistente)
             = hist[p].snap[proc[p].ofertaExistente].children
\* C29: RemoverCavaletesEItens of the PostgreSQL gateway is all-or-nothing: a
\* failure of the item deletion, of the cavalete deletion or of the commit
\* leaves the cavaletes and items of the Offer as they were before the call,
\* and no concurrent reader sees the cavaletes with their items already deleted
C29_RemocaoTudoOuNada ==
    /\ [][SemCommitSemEfeito]_vars
    /\ []DentroDaTransacao
    /\ []FalhaSemEfeito
\* the item deletion succeeded, the cavalete deletion or the commit failed, and
\* the offer has the two cavaletes and two items it had before the call
C29_Witness ==
    \E p \in Procs :
        /\ Fresh(p) /\ hist[p].solo
        /\ Len(hist[p].ops) = 3
        /\ hist[p].ops[2] = Op("DELETE itens", 0, 0, TRUE)
        /\ hist[p].ops[3] = Op("DELETE cavaletes", 0, 0, FALSE)
        /\ hist[p].snap[proc[p].ofertaExistente].children = DocChildren(Decode(JDoc1))
        /\ Children(proc[p].ofertaExistente) = DocChildren(Decode(JDoc1))
        /\ Cardinality(itens) = 2

\* ------------------------------------------------- approved products
Traders == {"t1"}

\* produtos.go lines 142-153: the INSERT INTO produtos_aprovados of
\* AprovarProduto, under the constraints of the table (init.sql lines 118-131):
\* cavalete_id references a cavalete, (trader_id, cavalete_id) is unique
InserirProdutoAprovado(traderID, cavaleteID) ==
    /\ CavaleteExiste(cavaleteID)
    /\ \A a \in produtos : ~(a.trader_id = traderID /\ a.cavalete_id = cavaleteID)
    /\ produtos' = produtos \cup {[trader_id |-> traderID, cavalete_id |-> cavaleteID]}
    /\ UNCHANGED <<store, proc, res, started, hist, last, lastOk, overlapped, xin, xout>>

\* the offer is stored and traders approve cavaletes while it is imported again
NextAprovados ==
    \/ \E url \in Links, at \in BOOLEAN : Importar("p1", url, at)
    \/ Verificar("p1")
    \/ Buscar("p1")
    \/ Atualizar("p1")
    \/ RemoverItens("p1")
    \/ RemoverCavaletes("p1")
    \/ SalvarCavalete("p1")
    \/ SalvarItem("p1")
    \/ \E t \in Traders, c \in cavaletes : InserirProdutoAprovado(t, c.id)
SpecAprovados == InitExistente /\ [][NextAprovados]_vars

\* the import of p has committed its RemoverCavaletesEItens
Removeu(p) ==
    /\ proc[p].n > 0
    /\ \E k \in DOMAIN hist[p].ops : hist[p].ops[k] = Op("DELETE cavaletes", 0, 0, TRUE)
\* every approved product references a stored cavalete
SemAprovadoOrfao == \A a \in produtos : \E c \in cavaletes : c.id = a.cavalete_id
\* the commit of the deletion removes the approved products of the offer's
\* cavaletes and no other
CascataNoCommit ==
    \A p \in Procs :
        (proc[p].pc = "removerCavaletes" /\ Removeu(p)')
        => LET removidos == {c.id : c \in CavaletesDe(proc[p].ofertaExistente)}
           IN  produtos' = {a \in produtos : a.cavalete_id \notin removidos}
\* no approval made on the snapshot that the import of p replaced is stored
NaoSobrevive ==
    \A p \in Procs : Removeu(p) =>
        \A a \in produtos : \A c \in hist[p].cascata : a.cavalete_id # c.id
\* C30: a replace import removes every approved-product row that references a
\* cavalete of the re-imported Offer: after the deletion step no approved
\* product references a cavalete that no longer exists, and the approvals made
\* on the previous snapshot are gone, even when the new document has a
\* cavalete with the same code and block
C30_AprovadosNaoSobrevivem ==
    /\ []SemAprovadoOrfao
    /\ [][CascataNoCommit]_vars
    /\ []NaoSobrevive
\* a successful replace import removed an approved cavalete and inserted one
\* with the same columns, which no trader has approved
C30_Witness ==
    \E p \in Procs :
        /\ Returned(p) /\ res[p].sucesso /\ Removeu(p)
        /\ \E c \in hist[p].cascata : \E d \in CavaletesDe(proc[p].ofertaExistente) :
              /\ d.col = c.col /\ d.id # c.id
              /\ \A a \in produtos : a.cavalete_id # d.id

====
